---- MODULE Spec2Model ----
(***************************************************************************)
(* Sliding-window visit counter (package visitercontrol).                  *)
(*                                                                         *)
(* circleQueueInt64 is a ring buffer of expiration instants; Visitercontrol*)
(* owns a pool of ring buffers (visitorRecords), the key -> index map      *)
(* (indexes, a sync.Map), the set of unused indices                        *)
(* (notUsedVisitorRecordsIndex) and the sweep deleteExpiredOnce ; gc.      *)
(*                                                                         *)
(* visitorRecords is a Go slice of POINTERS to ring buffers.  The model    *)
(* keeps the pointers: visitorRecords maps an index to a pointer and heap  *)
(* maps a pointer to the ring buffer it points to, so that two indices     *)
(* holding the same pointer share one buffer.  Pointer values carry no     *)
(* meaning; after gc rebuilt the slice they are renamed so that a buffer   *)
(* is named by the first index that holds it (Normalize).                  *)
(***************************************************************************)
EXTENDS Integers, Sequences, FiniteSets

\* ------------------------------------------------------------------ bounds
NumKeys    == 4      \* caller keys 1..NumKeys
MaxVisits  == 2      \* maxVisitsNum is drawn from 1..MaxVisits (0..MaxVisits in SpecEntry)
MaxUsers   == 1      \* maximumNumberOfOnlineUsers is drawn from 1..MaxUsers
Window     == 1      \* defaultExpiration, in clock ticks
MaxTime    == 2      \* the clock runs from 0 to MaxTime
IPKeys     == 3      \* SpecEntry: keys 1..IPKeys
BurstKeys  == 7      \* one-shot workload: keys 1..BurstKeys, one call each
BurstUsers == 3      \* one-shot workload: maximumNumberOfOnlineUsers in 1..BurstUsers
BurstVisits == 1     \* one-shot workload: maxVisitsNum in 1..BurstVisits
BurstTime  == 3      \* one-shot workload: the clock runs from 0 to BurstTime
NumCallers == 2      \* concurrent callers: goroutines 1..NumCallers
MaxCalls   == 2      \* concurrent callers: calls each goroutine makes
ConcKeys   == 2      \* concurrent callers: keys 1..ConcKeys
ConcVisits == 1      \* concurrent callers: maxVisitsNum in 1..ConcVisits
ConcUsers  == 2      \* concurrent callers: maximumNumberOfOnlineUsers in 1..ConcUsers
QueueCap   == 3      \* one ring buffer: its capacity is drawn from 0..QueueCap
QueueTime  == 4      \* one ring buffer: the clock runs from 0 to QueueTime
LoopKeys   == 2      \* background loop: keys 1..LoopKeys
LoopVisits == 2      \* background loop: maxVisitsNum in 1..LoopVisits
LoopUsers  == 1      \* background loop: maximumNumberOfOnlineUsers in 1..LoopUsers
LoopTime   == 2      \* background loop: the clock runs from 0 to LoopTime

Keys == 1..NumKeys
Callers == 1..NumCallers

\* the goroutine New starts: go this.deleteExpired()
Sweeper == 0

VARIABLES
    maxVisitsNum,                 \* Visitercontrol.maxVisitsNum
    maximumNumberOfOnlineUsers,   \* Visitercontrol.maximumNumberOfOnlineUsers
    indexes,                      \* Visitercontrol.indexes: key -> index
    visitorRecords,               \* Visitercontrol.visitorRecords: index -> pointer
    heap,                         \* pointer -> circleQueueInt64
    notUsedVisitorRecordsIndex,   \* Visitercontrol.notUsedVisitorRecordsIndex
    now,                          \* time.Now()
    panicked,                     \* a Go run-time panic ended the process
    issued,                       \* how many distinct keys have called so far
    admitted,                     \* key -> expirations of its admitted, unexpired events
    last,                         \* the last call and what it returned
    pc,                           \* goroutine -> the statement it is at
    loc,                          \* goroutine -> its local variables
    readers                       \* how many goroutines hold lock.RLock

vars == <<maxVisitsNum, maximumNumberOfOnlineUsers, indexes, visitorRecords,
          heap, notUsedVisitorRecordsIndex, now, panicked, issued, admitted, last, pc, loc, readers>>

\* the controller's mutable fields
Controller == <<indexes, visitorRecords, heap, notUsedVisitorRecordsIndex>>

\* the goroutines' own state; the calls of Spec run one at a time and leave it alone
conc == <<pc, loc, readers>>

\* ------------------------------------------------------- 0-based Go slices
Len0(f) == Cardinality(DOMAIN f)
Range(f) == {f[i] : i \in DOMAIN f}
Min(S) == CHOOSE x \in S : \A y \in S : x <= y

\* ------------------------------------------------------- circleQueueInt64
newCircleQueueInt64(size) ==
    [maxSize |-> size + 1, slice |-> [i \in 0..size |-> 0], head |-> 0, tail |-> 0]

\* IsFull reporting a buffer full one event early
IsFullEarly(q) == (q.tail + 2) % q.maxSize = q.head

IsFull(q) == (q.tail + 1) % q.maxSize = q.head

IsEmpty(q) == q.tail = q.head

UsedSize(q) == (q.tail + q.maxSize - q.head) % q.maxSize

\* Push writing the new event over the oldest one
PushSliceAtHead(q, val) == [q EXCEPT !.slice[q.head] = val]

\* Push, its second statement: this.slice[this.tail] = val
PushSlice(q, val) == [q EXCEPT !.slice[q.tail] = val]

\* Push, its third statement: this.tail = (this.tail + 1) % this.maxSize
PushTail(q) == [q EXCEPT !.tail = (q.tail + 1) % q.maxSize]

\* Push without the early return: a full buffer is written all the same
PushNoReturn(q, val) == [q |-> PushTail(PushSlice(q, val)), err |-> IsFull(q)]

\* err is TRUE for errors.New("queue is full")
Push(q, val) ==
    IF IsFull(q)
    THEN [q |-> q, err |-> TRUE]
    ELSE [q |-> PushTail(PushSlice(q, val)), err |-> FALSE]

\* err is TRUE for errors.New("queue is empty")
Pop(q) ==
    IF IsEmpty(q)
    THEN [q |-> q, val |-> 0, err |-> TRUE]
    ELSE [q |-> [q EXCEPT !.head = (q.head + 1) % q.maxSize],
          val |-> q.slice[q.head], err |-> FALSE]

\* the for loop of DeleteExpired dropping the events that expire at t as well
RECURSIVE DeleteExpiredLoopInclusive(_, _, _, _, _)
DeleteExpiredLoopInclusive(q, t, temphead, i, size) ==
    IF i >= size THEN q
    ELSE IF t >= q.slice[temphead]
         THEN DeleteExpiredLoopInclusive([q EXCEPT !.head = (q.head + 1) % q.maxSize],
                                         t, (temphead + 1) % q.maxSize, i + 1, size)
         ELSE q

\* the for loop of DeleteExpired, from iteration i on
RECURSIVE DeleteExpiredLoop(_, _, _, _, _)
DeleteExpiredLoop(q, t, temphead, i, size) ==
    IF i >= size THEN q
    ELSE IF t > q.slice[temphead]
         THEN DeleteExpiredLoop(Pop(q).q, t, (temphead + 1) % q.maxSize, i + 1, size)
         ELSE q

DeleteExpired(q, t) ==
    LET size == UsedSize(q)
    IN  IF size = 0 THEN q ELSE DeleteExpiredLoop(q, t, q.head, 0, size)

\* deleteExpiredOnce calls Size(), which the ring buffer does not define; it is
\* read as the number of stored events ("if the buffer becomes empty").
Size(q) == UsedSize(q)

\* the stored events, oldest first
Entries(q) == [i \in 1..UsedSize(q) |-> q.slice[(q.head + i - 1) % q.maxSize]]

\* ---------------------------------------------------------- Visitercontrol
\* The controller's mutable fields as one record.
State == [indexes |-> indexes, visitorRecords |-> visitorRecords, heap |-> heap,
          notUsed |-> notUsedVisitorRecordsIndex]

\* name every buffer by the first index that holds it
Normalize(vr, hp) ==
    LET first(i) == Min({j \in DOMAIN vr : vr[j] = vr[i]})
        nvr == [i \in DOMAIN vr |-> first(i)]
    IN  [visitorRecords |-> nvr,
         heap |-> [p \in Range(nvr) |-> hp[vr[p]]]]

\* the text -> key encoder (a dotted quad as its four octets)
Ip4StringToInt64(ip) ==
    IF Len(ip) = 4 /\ \A i \in 1..4 : ip[i] \in 0..255
    THEN ((ip[1] * 256 + ip[2]) * 256 + ip[3]) * 256 + ip[4]
    ELSE 0

NoPick == -1

\* what the range over notUsedVisitorRecordsIndex.Items may yield first
Picks(s, key) ==
    IF key \notin DOMAIN s.indexes /\ s.notUsed # {} THEN s.notUsed ELSE {NoPick}

\* add: err is "nil", "full" or "panic" (index out of range)
add(s, key, pick, t, limit, expiration) ==
    IF key \in DOMAIN s.indexes
    THEN LET index == s.indexes[key]
         IN  IF index \notin DOMAIN s.visitorRecords
             THEN [s |-> s, err |-> "panic"]
             ELSE LET p == s.visitorRecords[index]
                      r == Push(s.heap[p], t + expiration)
                  IN  [s |-> [s EXCEPT !.heap[p] = r.q],
                       err |-> IF r.err THEN "full" ELSE "nil"]
    ELSE IF Cardinality(s.notUsed) > 0
         THEN LET index == pick
              IN  IF index \notin DOMAIN s.visitorRecords
                  THEN [s |-> s, err |-> "panic"]
                  ELSE LET p == s.visitorRecords[index]
                           r == Push(s.heap[p], t + expiration)
                       IN  [s |-> [s EXCEPT
                                     !.heap[p] = r.q,
                                     !.notUsed = @ \ {index},
                                     !.indexes = [k \in DOMAIN @ \cup {key} |->
                                                    IF k = key THEN index ELSE @[k]]],
                            err |-> "nil"]
         ELSE LET queue == Push(newCircleQueueInt64(limit), t + expiration).q
                  n == Len0(s.visitorRecords)
              IN  [s |-> [s EXCEPT
                            !.visitorRecords = [i \in 0..n |-> IF i < n THEN @[i] ELSE n],
                            !.heap = [p \in DOMAIN @ \cup {n} |->
                                        IF p = n THEN queue ELSE @[p]],
                            !.indexes = [k \in DOMAIN @ \cup {key} |->
                                           IF k = key THEN n ELSE @[k]]],
                   err |-> "nil"]

\* one call of the callback deleteExpiredOnce hands to indexes.Range
deleteExpiredOnceEntry(s, k, t) ==
    LET index == s.indexes[k]
        dropped == [j \in DOMAIN s.indexes \ {k} |-> s.indexes[j]]
    IN  IF index < Len0(s.visitorRecords) /\ index >= 0
        THEN LET p == s.visitorRecords[index]
                 q == DeleteExpired(s.heap[p], t)
                 s1 == [s EXCEPT !.heap[p] = q]
             IN  IF Size(q) = 0
                 THEN [s1 EXCEPT !.indexes = dropped, !.notUsed = @ \cup {index}]
                 ELSE s1
        ELSE [s EXCEPT !.indexes = dropped]

\* indexes.Range over the keys still to visit.  The callbacks of distinct keys
\* commute (each drops its own key and adds its own index; DeleteExpired at a
\* fixed instant is idempotent), so one order stands for all.
RECURSIVE deleteExpiredOnceRange(_, _, _)
deleteExpiredOnceRange(s, keys, t) ==
    IF keys = {} THEN s
    ELSE LET k == Min(keys)
         IN  deleteExpiredOnceRange(deleteExpiredOnceEntry(s, k, t), keys \ {k}, t)

deleteExpiredOnce(s, t) == deleteExpiredOnceRange(s, DOMAIN s.indexes, t)

needGc(s, maxUsers) ==
    LET curLen == Len0(s.visitorRecords)
        unUsedLen == Cardinality(s.notUsed)
        usedLen == curLen - unUsedLen
    IN  IF curLen < 2 * maxUsers THEN FALSE
        ELSE IF usedLen * 2 < unUsedLen THEN TRUE
        ELSE FALSE

\* the rebuilt length as the larger of the two candidates
gcNewLenMax(usedLen, maxUsers) ==
    IF usedLen * 2 < maxUsers THEN maxUsers ELSE usedLen * 2

\* the length gc gives the rebuilt slice
gcNewLen(usedLen, maxUsers) ==
    IF usedLen < maxUsers THEN maxUsers ELSE usedLen * 2

\* the orders in which indexes.Range may visit the keys
Orders(keys) ==
    {o \in [1..Cardinality(keys) -> keys] : \A i, j \in DOMAIN o : i # j => o[i] # o[j]}

\* gc, with indexes.Range visiting the keys in the given order
gc(s, order, limit, maxUsers) ==
    IF ~needGc(s, maxUsers) THEN [s |-> s, rebuilt |-> FALSE, panic |-> FALSE]
    ELSE
    LET curLen == Len0(s.visitorRecords)
        unUsedLen == Cardinality(s.notUsed)
        usedLen == curLen - unUsedLen
        newLen == gcNewLen(usedLen, maxUsers)
        n == Len(order)
        \* visitorRecordsNew[indexNew] = this.visitorRecords[indexOld]
        outOfRange == \E i \in 1..n : \/ s.indexes[order[i]] \notin DOMAIN s.visitorRecords
                                      \/ i - 1 >= newLen
        tmpvr == [i \in 0..(newLen - 1) |->
                    IF i < n THEN s.visitorRecords[s.indexes[order[i + 1]]]
                    ELSE curLen + i]
        tmphp == [p \in Range(tmpvr) |->
                    IF p < curLen THEN s.heap[p] ELSE newCircleQueueInt64(limit)]
        norm == Normalize(tmpvr, tmphp)
    IN  IF outOfRange
        THEN [s |-> [s EXCEPT !.notUsed = {}], rebuilt |-> FALSE, panic |-> TRUE]
        ELSE [s |-> [s EXCEPT !.visitorRecords = norm.visitorRecords,
                              !.heap = norm.heap,
                              !.notUsed = {i \in 0..(newLen - 1) : i >= n}],
              rebuilt |-> TRUE, panic |-> FALSE]

\* AllowVisit: "true" iff add returned nil
allowVisit(s, key, pick, t, limit, expiration) ==
    LET r == add(s, key, pick, t, limit, expiration)
    IN  [s |-> r.s,
         ret |-> IF r.err = "panic" THEN "panic"
                 ELSE IF r.err = "nil" THEN "true" ELSE "false"]

\* AllowVisitIP without the test for the key 0
allowVisitIPUnchecked(s, ip, pick, t, limit, expiration) ==
    allowVisit(s, Ip4StringToInt64(ip), pick, t, limit, expiration)

allowVisitIP(s, ip, pick, t, limit, expiration) ==
    LET ipInt64 == Ip4StringToInt64(ip)
    IN  IF ipInt64 = 0
        THEN [s |-> s, ret |-> "false"]
        ELSE allowVisit(s, ipInt64, pick, t, limit, expiration)

\* one round of the background loop: deleteExpiredOnce, then gc
sweep(s, order, t, limit, maxUsers) == gc(deleteExpiredOnce(s, t), order, limit, maxUsers)

\* ------------------------------------------------------------------ actions
Install(s) ==
    /\ indexes' = s.indexes
    /\ visitorRecords' = s.visitorRecords
    /\ heap' = s.heap
    /\ notUsedVisitorRecordsIndex' = s.notUsed

\* the locals of a goroutine that is not inside add, after calls calls
Idle(calls) == [key |-> 0, index |-> NoPick, queue |-> NoPick, records |-> <<>>,
                calls |-> calls]

\* the locals of the goroutine of deleteExpired while it waits for the ticker:
\* finished, the ticks the ticker's channel holds (each with whether it fired
\* during a sweep), and the locals of deleteExpiredOnce's callback and of
\* DeleteExpired, unset
Waiting(finished, ticks) ==
    [finished |-> finished, ticks |-> ticks, tick |-> FALSE, visited |-> {},
     key |-> 0, index |-> NoPick, queue |-> NoPick,
     t |-> 0, size |-> 0, temphead |-> 0, i |-> 0]

Call(op, key, ip, ret) == [op |-> op, key |-> key, ip |-> ip, ret |-> ret]

\* new: the pool holds maximumNumberOfOnlineUsers empty buffers, all unused
new(limits, users, keys) ==
    /\ maxVisitsNum \in limits
    /\ maximumNumberOfOnlineUsers \in users
    /\ indexes = <<>>
    /\ visitorRecords = [i \in 0..(maximumNumberOfOnlineUsers - 1) |-> i]
    /\ heap = [p \in 0..(maximumNumberOfOnlineUsers - 1) |->
                 newCircleQueueInt64(maxVisitsNum)]
    /\ notUsedVisitorRecordsIndex = 0..(maximumNumberOfOnlineUsers - 1)
    /\ now = 0
    /\ panicked = FALSE
    /\ issued = 0
    /\ admitted = [k \in keys |-> <<>>]
    /\ last = Call("new", 0, <<>>, "nil")
    /\ pc = [c \in Callers \cup {Sweeper} |-> "idle"]
    /\ loc = [c \in Callers \cup {Sweeper} |->
                IF c = Sweeper THEN Waiting(TRUE, <<>>) ELSE Idle(0)]
    /\ readers = 0

Init == new(1..MaxVisits, 1..MaxUsers, Keys)

\* the bookkeeping of a call for key that returned ret: the admitted events
\* (kept up to one past the limit) and the callers seen
Admit(key, ret) ==
    /\ issued' = IF key > issued THEN key ELSE issued
    /\ admitted' = IF ret = "true" /\ Len(admitted[key]) <= maxVisitsNum
                   THEN [admitted EXCEPT ![key] = Append(@, now + Window)]
                   ELSE admitted

\* Keys are opaque to the code (they are only looked up in indexes), so callers
\* are numbered in the order of their first call.
AllowVisit(key) ==
    /\ ~panicked
    /\ key <= issued + 1
    /\ \E pick \in Picks(State, key) :
         LET r == allowVisit(State, key, pick, now, maxVisitsNum, Window)
         IN  /\ Install(r.s)
             /\ panicked' = (r.ret = "panic")
             /\ Admit(key, r.ret)
             /\ last' = Call("AllowVisit", key, <<>>, r.ret)
    /\ UNCHANGED <<maxVisitsNum, maximumNumberOfOnlineUsers, now>>
    /\ UNCHANGED conc

\* the texts callers pass: dotted quads of the keys, 0.0.0.0 and malformed ones
Texts == {<<0, 0, 0, k>> : k \in 0..IPKeys} \cup {<<>>, <<300, 0, 0, 1>>, <<0, 0, 1>>}

AllowVisitIP(ip) ==
    /\ ~panicked
    /\ Ip4StringToInt64(ip) <= issued + 1
    /\ \E pick \in Picks(State, Ip4StringToInt64(ip)) :
         LET r == allowVisitIP(State, ip, pick, now, maxVisitsNum, Window)
         IN  /\ Install(r.s)
             /\ panicked' = (r.ret = "panic")
             /\ IF Ip4StringToInt64(ip) \in DOMAIN admitted
                THEN Admit(Ip4StringToInt64(ip), r.ret)
                ELSE UNCHANGED <<issued, admitted>>
             /\ last' = Call("AllowVisitIP", Ip4StringToInt64(ip), ip, r.ret)
    /\ UNCHANGED <<maxVisitsNum, maximumNumberOfOnlineUsers, now>>
    /\ UNCHANGED conc

DeleteExpiredOnce ==
    /\ ~panicked
    /\ Install(deleteExpiredOnce(State, now))
    /\ last' = Call("deleteExpiredOnce", 0, <<>>, "nil")
    /\ UNCHANGED <<maxVisitsNum, maximumNumberOfOnlineUsers, now, panicked, issued,
                   admitted>>
    /\ UNCHANGED conc

GcResult(r) == IF r.panic THEN "panic" ELSE IF r.rebuilt THEN "rebuilt" ELSE "nil"

Gc ==
    /\ ~panicked
    /\ \E order \in (IF needGc(State, maximumNumberOfOnlineUsers)
                     THEN Orders(DOMAIN indexes) ELSE {<<>>}) :
         LET r == gc(State, order, maxVisitsNum, maximumNumberOfOnlineUsers)
         IN  /\ Install(r.s)
             /\ panicked' = r.panic
             /\ last' = Call("gc", 0, <<>>, GcResult(r))
    /\ UNCHANGED <<maxVisitsNum, maximumNumberOfOnlineUsers, now, issued, admitted>>
    /\ UNCHANGED conc

\* the body of the loop of deleteExpired
Sweep ==
    /\ ~panicked
    /\ LET d == deleteExpiredOnce(State, now)
       IN  \E order \in (IF needGc(d, maximumNumberOfOnlineUsers)
                         THEN Orders(DOMAIN d.indexes) ELSE {<<>>}) :
             LET r == sweep(State, order, now, maxVisitsNum, maximumNumberOfOnlineUsers)
             IN  /\ Install(r.s)
                 /\ panicked' = r.panic
                 /\ last' = Call("sweep", 0, <<>>, GcResult(r))
    /\ UNCHANGED <<maxVisitsNum, maximumNumberOfOnlineUsers, now, issued, admitted>>
    /\ UNCHANGED conc

\* the clock advances; events whose expiration has passed stop counting
Tick(maxTime) ==
    /\ ~panicked
    /\ now < maxTime
    /\ now' = now + 1
    /\ admitted' = [k \in DOMAIN admitted |->
                      SelectSeq(admitted[k], LAMBDA e : ~(now + 1 > e))]
    /\ last' = Call("tick", 0, <<>>, "nil")
    /\ UNCHANGED <<maxVisitsNum, maximumNumberOfOnlineUsers, indexes, visitorRecords,
                   heap, notUsedVisitorRecordsIndex, panicked, issued>>
    /\ UNCHANGED conc

Next ==
    \/ \E key \in Keys : AllowVisit(key)
    \/ DeleteExpiredOnce
    \/ Gc
    \/ Tick(MaxTime)

Spec == Init /\ [][Next]_vars

\* ---- the same calls, with whole rounds of the background loop among them
NextSweep ==
    \/ Next
    \/ Sweep

SpecSweep == Init /\ [][NextSweep]_vars

\* ---- callers that come in through both entry points, AllowVisit and
\* AllowVisitIP, and controllers built with maxVisitsNum = 0 as well
InitEntry == new(0..MaxVisits, 1..MaxUsers, 1..IPKeys)

NextEntry ==
    \/ \E key \in 1..IPKeys : AllowVisit(key)
    \/ \E ip \in Texts : AllowVisitIP(ip)
    \/ DeleteExpiredOnce
    \/ Gc
    \/ Tick(MaxTime)

SpecEntry == InitEntry /\ [][NextEntry]_vars

\* ---- one-shot workload: every key calls once and goes silent
InitBurst == new(1..BurstVisits, 1..BurstUsers, 1..BurstKeys)

NextBurst ==
    \/ \E key \in 1..BurstKeys : key = issued + 1 /\ AllowVisit(key)
    \/ DeleteExpiredOnce
    \/ Gc
    \/ Sweep
    \/ Tick(BurstTime)

SpecBurst == InitBurst /\ [][NextBurst]_vars

\* ---- concurrent callers: every goroutine runs add one statement at a time.
\* The existing-key path takes no lock and the first-sight path takes the READ
\* side of lock, which goroutines share, so the statements of different calls
\* interleave freely.
Fixed == <<maxVisitsNum, maximumNumberOfOnlineUsers, now>>

Goto(c, label) == pc' = [pc EXCEPT ![c] = label]

\* indexes.Store(key, index)
Stored(key, index) ==
    [k \in DOMAIN indexes \cup {key} |-> IF k = key THEN index ELSE indexes[k]]

\* AllowVisit(key) is called
Begin(c, key) ==
    /\ ~panicked /\ pc[c] = "idle"
    /\ loc[c].calls < MaxCalls
    /\ loc' = [loc EXCEPT ![c].key = key, ![c].calls = @ + 1]
    /\ Goto(c, "load")
    /\ UNCHANGED <<Controller, Fixed, panicked, issued, admitted, last, readers>>

\* the call returns ret
Return(c, ret) ==
    /\ Goto(c, "idle")
    /\ loc' = [loc EXCEPT ![c] = Idle(loc[c].calls)]
    /\ Admit(loc[c].key, ret)
    /\ last' = Call("AllowVisit", loc[c].key, <<>>, ret)

\* index, exist := this.indexes.Load(key)
Load(c) ==
    /\ ~panicked /\ pc[c] = "load"
    /\ IF loc[c].key \in DOMAIN indexes
       THEN /\ loc' = [loc EXCEPT ![c].index = indexes[loc[c].key]]
            /\ Goto(c, "xfull")
       ELSE /\ loc' = loc
            /\ Goto(c, "rlock")
    /\ UNCHANGED <<Controller, Fixed, panicked, issued, admitted, last, readers>>

\* existing key: this.visitorRecords[index].Push(...), up to Push's test
\* if this.IsFull() { return errors.New("queue is full") }
ExistingIsFull(c) ==
    /\ ~panicked /\ pc[c] = "xfull"
    /\ IF loc[c].index \notin DOMAIN visitorRecords
       THEN /\ panicked' = TRUE
            /\ last' = Call("AllowVisit", loc[c].key, <<>>, "panic")
            /\ UNCHANGED <<pc, loc, issued, admitted>>
       ELSE /\ panicked' = panicked
            /\ IF IsFull(heap[visitorRecords[loc[c].index]])
               THEN Return(c, "false")
               ELSE /\ loc' = [loc EXCEPT ![c].queue = visitorRecords[loc[c].index]]
                    /\ Goto(c, "xslice")
                    /\ UNCHANGED <<issued, admitted, last>>
    /\ UNCHANGED <<Controller, Fixed, readers>>

\* existing key, Push: this.slice[this.tail] = val
ExistingSlice(c) ==
    /\ ~panicked /\ pc[c] = "xslice"
    /\ heap' = [heap EXCEPT ![loc[c].queue] = PushSlice(@, now + Window)]
    /\ Goto(c, "xtail")
    /\ UNCHANGED <<indexes, visitorRecords, notUsedVisitorRecordsIndex, Fixed,
                   panicked, issued, admitted, last, loc, readers>>

\* existing key, Push: the tail moves on, and add returns nil
ExistingTail(c) ==
    /\ ~panicked /\ pc[c] = "xtail"
    /\ heap' = [heap EXCEPT ![loc[c].queue] = PushTail(@)]
    /\ Return(c, "true")
    /\ UNCHANGED <<indexes, visitorRecords, notUsedVisitorRecordsIndex, Fixed,
                   panicked, readers>>

\* the statements at which the goroutine of deleteExpired holds lock.Lock
WriteLocked == {"delete", "addindex"}

\* this.lock.RLock(): waits while the write side is held
RLock(c) ==
    /\ ~panicked /\ pc[c] = "rlock"
    /\ pc[Sweeper] \notin WriteLocked
    /\ readers' = readers + 1
    /\ Goto(c, "size")
    /\ UNCHANGED <<Controller, Fixed, panicked, issued, admitted, last, loc>>

\* if this.notUsedVisitorRecordsIndex.Size() > 0
SizeTest(c) ==
    /\ ~panicked /\ pc[c] = "size"
    /\ Goto(c, IF Cardinality(notUsedVisitorRecordsIndex) > 0 THEN "range" ELSE "new")
    /\ UNCHANGED <<Controller, Fixed, panicked, issued, admitted, last, loc, readers>>

\* for index := range this.notUsedVisitorRecordsIndex.Items: any unused index,
\* and no iteration at all when the set has been emptied since the test
RangeItems(c) ==
    /\ ~panicked /\ pc[c] = "range"
    /\ IF notUsedVisitorRecordsIndex = {}
       THEN /\ loc' = loc
            /\ Goto(c, "runlock")
       ELSE /\ \E index \in notUsedVisitorRecordsIndex :
                 loc' = [loc EXCEPT ![c].index = index]
            /\ Goto(c, "ffull")
    /\ UNCHANGED <<Controller, Fixed, panicked, issued, admitted, last, readers>>

\* reused slot: this.visitorRecords[index].Push(...), up to Push's test; the
\* error Push returns is dropped
ReusedIsFull(c) ==
    /\ ~panicked /\ pc[c] = "ffull"
    /\ IF loc[c].index \notin DOMAIN visitorRecords
       THEN /\ panicked' = TRUE
            /\ last' = Call("AllowVisit", loc[c].key, <<>>, "panic")
            /\ UNCHANGED <<pc, loc>>
       ELSE /\ panicked' = panicked
            /\ last' = last
            /\ IF IsFull(heap[visitorRecords[loc[c].index]])
               THEN /\ loc' = loc
                    /\ Goto(c, "remove")
               ELSE /\ loc' = [loc EXCEPT ![c].queue = visitorRecords[loc[c].index]]
                    /\ Goto(c, "fslice")
    /\ UNCHANGED <<Controller, Fixed, issued, admitted, readers>>

\* reused slot, Push: this.slice[this.tail] = val
ReusedSlice(c) ==
    /\ ~panicked /\ pc[c] = "fslice"
    /\ heap' = [heap EXCEPT ![loc[c].queue] = PushSlice(@, now + Window)]
    /\ Goto(c, "ftail")
    /\ UNCHANGED <<indexes, visitorRecords, notUsedVisitorRecordsIndex, Fixed,
                   panicked, issued, admitted, last, loc, readers>>

\* reused slot, Push: the tail moves on
ReusedTail(c) ==
    /\ ~panicked /\ pc[c] = "ftail"
    /\ heap' = [heap EXCEPT ![loc[c].queue] = PushTail(@)]
    /\ Goto(c, "remove")
    /\ UNCHANGED <<indexes, visitorRecords, notUsedVisitorRecordsIndex, Fixed,
                   panicked, issued, admitted, last, loc, readers>>

\* this.notUsedVisitorRecordsIndex.Remove(index)
RemoveIndex(c) ==
    /\ ~panicked /\ pc[c] = "remove"
    /\ notUsedVisitorRecordsIndex' = notUsedVisitorRecordsIndex \ {loc[c].index}
    /\ Goto(c, "store")
    /\ UNCHANGED <<indexes, visitorRecords, heap, Fixed, panicked, issued, admitted,
                   last, loc, readers>>

\* this.indexes.Store(key, index); break
StoreIndex(c) ==
    /\ ~panicked /\ pc[c] = "store"
    /\ indexes' = Stored(loc[c].key, loc[c].index)
    /\ Goto(c, "runlock")
    /\ UNCHANGED <<visitorRecords, heap, notUsedVisitorRecordsIndex, Fixed, panicked,
                   issued, admitted, last, loc, readers>>

\* queue := newCircleQueueInt64(this.maxVisitsNum); queue.Push(...): a buffer no
\* other goroutine can reach yet
NewQueue(c) ==
    /\ ~panicked /\ pc[c] = "new"
    /\ LET q == Min({p \in 0..Cardinality(DOMAIN heap) : p \notin DOMAIN heap})
       IN  /\ heap' = [p \in DOMAIN heap \cup {q} |->
                         IF p = q
                         THEN Push(newCircleQueueInt64(maxVisitsNum), now + Window).q
                         ELSE heap[p]]
           /\ loc' = [loc EXCEPT ![c].queue = q]
    /\ Goto(c, "append")
    /\ UNCHANGED <<indexes, visitorRecords, notUsedVisitorRecordsIndex, Fixed,
                   panicked, issued, admitted, last, readers>>

\* this.visitorRecords = append(this.visitorRecords, queue): the slice is read ...
AppendRead(c) ==
    /\ ~panicked /\ pc[c] = "append"
    /\ loc' = [loc EXCEPT ![c].records = visitorRecords]
    /\ Goto(c, "assign")
    /\ UNCHANGED <<Controller, Fixed, panicked, issued, admitted, last, readers>>

\* ... and the slice read, one element longer, is assigned
AppendAssign(c) ==
    /\ ~panicked /\ pc[c] = "assign"
    /\ LET n == Len0(loc[c].records)
       IN  visitorRecords' = [i \in 0..n |-> IF i < n THEN loc[c].records[i]
                                             ELSE loc[c].queue]
    /\ Goto(c, "storelast")
    /\ UNCHANGED <<indexes, heap, notUsedVisitorRecordsIndex, Fixed, panicked,
                   issued, admitted, last, loc, readers>>

\* this.indexes.Store(key, len(this.visitorRecords)-1)
StoreLast(c) ==
    /\ ~panicked /\ pc[c] = "storelast"
    /\ indexes' = Stored(loc[c].key, Len0(visitorRecords) - 1)
    /\ Goto(c, "runlock")
    /\ UNCHANGED <<visitorRecords, heap, notUsedVisitorRecordsIndex, Fixed, panicked,
                   issued, admitted, last, loc, readers>>

\* return nil, and the deferred this.lock.RUnlock()
RUnlock(c) ==
    /\ ~panicked /\ pc[c] = "runlock"
    /\ readers' = readers - 1
    /\ Return(c, "true")
    /\ UNCHANGED <<Controller, Fixed, panicked>>

InitConc == new(1..ConcVisits, 1..ConcUsers, 1..ConcKeys)

NextConc ==
    \E c \in Callers :
        \/ \E key \in 1..ConcKeys : Begin(c, key)
        \/ Load(c)
        \/ ExistingIsFull(c)
        \/ ExistingSlice(c)
        \/ ExistingTail(c)
        \/ RLock(c)
        \/ SizeTest(c)
        \/ RangeItems(c)
        \/ ReusedIsFull(c)
        \/ ReusedSlice(c)
        \/ ReusedTail(c)
        \/ RemoveIndex(c)
        \/ StoreIndex(c)
        \/ NewQueue(c)
        \/ AppendRead(c)
        \/ AppendAssign(c)
        \/ StoreLast(c)
        \/ RUnlock(c)

SpecConc == InitConc /\ [][NextConc]_vars

\* ---- the background loop of deleteExpired, one statement at a time, next to
\* callers.  The callers take turns (one call at a time), so every interleaving
\* is one of a call with the sweep; the clock advances between calls.
\*
\* time.Tick hands the loop a channel that holds one tick: a tick that fires
\* while the channel is full is dropped, one that fires while it is empty waits
\* there until the loop receives it.
InitLoop == new(1..LoopVisits, 1..LoopUsers, 1..LoopKeys)

SweeperFrame == UNCHANGED <<Fixed, issued, admitted, readers>>

\* the ticker fires
TimerFires ==
    /\ ~panicked
    /\ loc[Sweeper].ticks = <<>>
    /\ loc' = [loc EXCEPT ![Sweeper].ticks = <<~loc[Sweeper].finished>>]
    /\ UNCHANGED <<Controller, Fixed, panicked, issued, admitted, last, pc, readers>>

\* for range time.Tick(this.cleanupInterval): the next tick is received
Receive ==
    /\ ~panicked /\ pc[Sweeper] = "idle"
    /\ loc[Sweeper].ticks # <<>>
    /\ loc' = [loc EXCEPT ![Sweeper].tick = Head(loc[Sweeper].ticks),
                          ![Sweeper].ticks = Tail(loc[Sweeper].ticks)]
    /\ Goto(Sweeper, "guard")
    /\ UNCHANGED <<Controller, panicked, last>>
    /\ SweeperFrame

\* if finished { finished = false; ...
Guard ==
    /\ ~panicked /\ pc[Sweeper] = "guard"
    /\ IF loc[Sweeper].finished
       THEN /\ loc' = [loc EXCEPT ![Sweeper].finished = FALSE]
            /\ Goto(Sweeper, "range")
       ELSE /\ loc' = [loc EXCEPT ![Sweeper] =
                         Waiting(loc[Sweeper].finished, loc[Sweeper].ticks)]
            /\ Goto(Sweeper, "idle")
    /\ UNCHANGED <<Controller, panicked, last>>
    /\ SweeperFrame

\* this.indexes.Range(func(k, v interface{}) bool { index := v.(int): the next
\* key not visited yet, with the index stored for it now; gc when none is left
RangeNext ==
    /\ ~panicked /\ pc[Sweeper] = "range"
    /\ IF DOMAIN indexes \subseteq loc[Sweeper].visited
       THEN /\ loc' = loc
            /\ Goto(Sweeper, "gc")
       ELSE /\ \E k \in DOMAIN indexes \ loc[Sweeper].visited :
                 loc' = [loc EXCEPT ![Sweeper].key = k,
                                    ![Sweeper].index = indexes[k],
                                    ![Sweeper].visited = @ \cup {k}]
            /\ Goto(Sweeper, "bounds")
    /\ UNCHANGED <<Controller, panicked, last>>
    /\ SweeperFrame

\* if index < len(this.visitorRecords) && index >= 0 ... else indexes.Delete(k)
BoundsCheck ==
    /\ ~panicked /\ pc[Sweeper] = "bounds"
    /\ IF loc[Sweeper].index < Len0(visitorRecords) /\ loc[Sweeper].index >= 0
       THEN /\ loc' = [loc EXCEPT ![Sweeper].queue = visitorRecords[loc[Sweeper].index]]
            /\ indexes' = indexes
            /\ Goto(Sweeper, "expire")
       ELSE /\ loc' = loc
            /\ indexes' = [j \in DOMAIN indexes \ {loc[Sweeper].key} |-> indexes[j]]
            /\ Goto(Sweeper, "range")
    /\ UNCHANGED <<visitorRecords, heap, notUsedVisitorRecordsIndex, panicked, last>>
    /\ SweeperFrame

\* DeleteExpired, up to its loop: now, size and temphead are read
DeleteExpiredBegin ==
    /\ ~panicked /\ pc[Sweeper] = "expire"
    /\ LET q == heap[loc[Sweeper].queue]
       IN  IF UsedSize(q) = 0
           THEN /\ loc' = loc
                /\ Goto(Sweeper, "size")
           ELSE /\ loc' = [loc EXCEPT ![Sweeper].t = now,
                                      ![Sweeper].size = UsedSize(q),
                                      ![Sweeper].temphead = q.head,
                                      ![Sweeper].i = 0]
                /\ Goto(Sweeper, "loop")
    /\ UNCHANGED <<Controller, panicked, last>>
    /\ SweeperFrame

\* DeleteExpired, one iteration of its loop
DeleteExpiredStep ==
    /\ ~panicked /\ pc[Sweeper] = "loop"
    /\ LET q == heap[loc[Sweeper].queue]
           l == loc[Sweeper]
       IN  IF l.i < l.size /\ l.t > q.slice[l.temphead]
           THEN /\ heap' = [heap EXCEPT ![l.queue] = Pop(q).q]
                /\ loc' = [loc EXCEPT ![Sweeper].temphead = (l.temphead + 1) % q.maxSize,
                                      ![Sweeper].i = l.i + 1]
                /\ pc' = pc
           ELSE /\ heap' = heap
                /\ loc' = loc
                /\ Goto(Sweeper, "size")
    /\ UNCHANGED <<indexes, visitorRecords, notUsedVisitorRecordsIndex, panicked, last>>
    /\ SweeperFrame

\* if this.visitorRecords[index].Size() == 0
SizeCheck ==
    /\ ~panicked /\ pc[Sweeper] = "size"
    /\ Goto(Sweeper, IF Size(heap[visitorRecords[loc[Sweeper].index]]) = 0
                     THEN "lock" ELSE "range")
    /\ UNCHANGED <<Controller, panicked, last, loc>>
    /\ SweeperFrame

\* this.lock.Lock(): waits for the readers to leave
Lock ==
    /\ ~panicked /\ pc[Sweeper] = "lock"
    /\ readers = 0
    /\ Goto(Sweeper, "delete")
    /\ UNCHANGED <<Controller, panicked, last, loc>>
    /\ SweeperFrame

\* this.indexes.Delete(k)
DeleteIndex ==
    /\ ~panicked /\ pc[Sweeper] = "delete"
    /\ indexes' = [j \in DOMAIN indexes \ {loc[Sweeper].key} |-> indexes[j]]
    /\ Goto(Sweeper, "addindex")
    /\ UNCHANGED <<visitorRecords, heap, notUsedVisitorRecordsIndex, panicked, last, loc>>
    /\ SweeperFrame

\* this.notUsedVisitorRecordsIndex.Add(index), and the deferred Unlock as the
\* callback returns
AddIndex ==
    /\ ~panicked /\ pc[Sweeper] = "addindex"
    /\ notUsedVisitorRecordsIndex' = notUsedVisitorRecordsIndex \cup {loc[Sweeper].index}
    /\ Goto(Sweeper, "range")
    /\ UNCHANGED <<indexes, visitorRecords, heap, panicked, last, loc>>
    /\ SweeperFrame

\* this.gc() under lock.Lock, then finished = true and back to the ticker
GcLocked ==
    /\ ~panicked /\ pc[Sweeper] = "gc"
    /\ readers = 0
    /\ \E order \in (IF needGc(State, maximumNumberOfOnlineUsers)
                     THEN Orders(DOMAIN indexes) ELSE {<<>>}) :
         LET r == gc(State, order, maxVisitsNum, maximumNumberOfOnlineUsers)
         IN  /\ Install(r.s)
             /\ panicked' = r.panic
             /\ last' = Call("sweep", 0, <<>>, GcResult(r))
    /\ loc' = [loc EXCEPT ![Sweeper] = Waiting(TRUE, loc[Sweeper].ticks)]
    /\ Goto(Sweeper, "idle")
    /\ SweeperFrame

\* a caller starts a call while no other call is running
BeginInTurn(c, key) ==
    /\ \A d \in Callers : pc[d] = "idle"
    /\ Begin(c, key)

\* the clock advances between calls
TickBetweenCalls ==
    /\ \A d \in Callers : pc[d] = "idle"
    /\ Tick(LoopTime)

NextLoop ==
    \/ \E c \in Callers :
        \/ \E key \in 1..LoopKeys : BeginInTurn(c, key)
        \/ Load(c)
        \/ ExistingIsFull(c)
        \/ ExistingSlice(c)
        \/ ExistingTail(c)
        \/ RLock(c)
        \/ SizeTest(c)
        \/ RangeItems(c)
        \/ ReusedIsFull(c)
        \/ ReusedSlice(c)
        \/ ReusedTail(c)
        \/ RemoveIndex(c)
        \/ StoreIndex(c)
        \/ NewQueue(c)
        \/ AppendRead(c)
        \/ AppendAssign(c)
        \/ StoreLast(c)
        \/ RUnlock(c)
    \/ TimerFires
    \/ Receive
    \/ Guard
    \/ RangeNext
    \/ BoundsCheck
    \/ DeleteExpiredBegin
    \/ DeleteExpiredStep
    \/ SizeCheck
    \/ Lock
    \/ DeleteIndex
    \/ AddIndex
    \/ GcLocked
    \/ TickBetweenCalls

SpecLoop == InitLoop /\ [][NextLoop]_vars

\* ---- one ring buffer on its own: Push, Pop and DeleteExpired in any order, on
\* the buffer of index 0 of a pool of one, with the clock stamping the events
InitQueue == new(0..QueueCap, {1}, {1})

TheQueue == heap[visitorRecords[0]]

QCall(op, val, err) == [op |-> op, val |-> val, err |-> err]

QueueFrame ==
    /\ UNCHANGED <<maxVisitsNum, maximumNumberOfOnlineUsers, indexes, visitorRecords,
                   notUsedVisitorRecordsIndex, now, panicked, issued, admitted>>
    /\ UNCHANGED conc

QPush ==
    /\ LET r == Push(TheQueue, now + Window)
       IN  /\ heap' = [heap EXCEPT ![visitorRecords[0]] = r.q]
           /\ last' = QCall("Push", now + Window, r.err)
    /\ QueueFrame

QPop ==
    /\ LET r == Pop(TheQueue)
       IN  /\ heap' = [heap EXCEPT ![visitorRecords[0]] = r.q]
           /\ last' = QCall("Pop", r.val, r.err)
    /\ QueueFrame

QDeleteExpired ==
    /\ heap' = [heap EXCEPT ![visitorRecords[0]] = DeleteExpired(TheQueue, now)]
    /\ last' = QCall("DeleteExpired", now, FALSE)
    /\ QueueFrame

NextQueue ==
    \/ QPush
    \/ QPop
    \/ QDeleteExpired
    \/ Tick(QueueTime)

SpecQueue == InitQueue /\ [][NextQueue]_vars

\* ------------------------------------------------------------------- claims
Max2(a, b) == IF a >= b THEN a ELSE b

\* key k is mapped to an index of visitorRecords in s
Resolves(s, k) == k \in DOMAIN s.indexes /\ s.indexes[k] \in DOMAIN s.visitorRecords

\* the ring buffer reached through k's index
BufferOf(s, k) == s.heap[s.visitorRecords[s.indexes[k]]]

\* C1: for every key the number of admitted events whose expiration has not
\* passed never exceeds maxVisitsNum, whatever calls, sweeps and rebuilds happen.
C1_CapacityInvariant ==
    \A k \in DOMAIN admitted : Len(admitted[k]) <= maxVisitsNum

\* the call for k pushed its event: the resolved buffer holds the events it held
\* before the call (none, for a newly appended buffer) followed by the new one
Pushed(k) ==
    /\ Resolves(State', k)
    /\ Entries(BufferOf(State', k)) =
         Append(IF indexes'[k] \in DOMAIN visitorRecords
                THEN Entries(heap[visitorRecords[indexes'[k]]])
                ELSE <<>>,
                now + Window)

\* C2: when calls for one key run concurrently, then once all have returned the
\* calls that returned true are no more than maxVisitsNum, the key is mapped to
\* a slot whose buffer holds exactly one event per such call, and no slot taken
\* for the key is left without a key.
C2_PerKeyAtomic ==
    (\A c \in Callers : pc[c] = "idle") =>
      /\ \A k \in DOMAIN admitted :
            /\ Len(admitted[k]) <= maxVisitsNum
            /\ Len(admitted[k]) > 0 =>
                  /\ Resolves(State, k)
                  /\ UsedSize(BufferOf(State, k)) = Len(admitted[k])
      /\ \A i \in DOMAIN visitorRecords \ notUsedVisitorRecordsIndex :
            \E k \in DOMAIN indexes : indexes[k] = i

\* C3: AllowVisit returns true if and only if the Push of the new event into the
\* key's resolved buffer succeeded, on the existing-key, reused-slot and
\* appended-slot paths alike.
C3_TrueIffPushed ==
    [][(last'.op = "AllowVisit" /\ last'.ret # "panic")
         => (last'.ret = "true" <=> Pushed(last'.key))]_vars

\* C4: the unused indices and the indices indexes maps to are disjoint, cover
\* exactly the indices of visitorRecords, and no two keys share an index.
C4_Partition ==
    ~panicked =>
      /\ notUsedVisitorRecordsIndex \cap Range(indexes) = {}
      /\ notUsedVisitorRecordsIndex \cup Range(indexes) = DOMAIN visitorRecords
      /\ \A j, k \in DOMAIN indexes : j # k => indexes[j] # indexes[k]

\* C5: a gc that rebuilds the pool leaves every key mapped to its own buffer:
\* the buffer reached through the key holds the same events, in the same order,
\* as before the rebuild.
C5_GcKeepsHistory ==
    [][(last'.op = "gc" /\ last'.ret = "rebuilt")
         => \A k \in DOMAIN indexes' :
              /\ Resolves(State', k)
              /\ Entries(BufferOf(State', k)) = Entries(BufferOf(State, k))]_vars

\* C6: an AllowVisit that returns false changes nothing: the events and UsedSize
\* of the key's buffer, indexes, the unused set and the pool are as before.
C6_DeniedChangesNothing ==
    [][(last'.op = "AllowVisit" /\ last'.ret = "false")
         => /\ UNCHANGED <<indexes, notUsedVisitorRecordsIndex, visitorRecords>>
            /\ Entries(BufferOf(State', last'.key)) = Entries(BufferOf(State, last'.key))
            /\ UsedSize(BufferOf(State', last'.key)) = UsedSize(BufferOf(State, last'.key))
            /\ heap' = heap]_vars

\* a denied call has happened, on a key that holds maxVisitsNum >= 1 events
C6_Witness ==
    /\ last.op = "AllowVisit" /\ last.ret = "false"
    /\ maxVisitsNum >= 1
    /\ UsedSize(BufferOf(State, last.key)) = maxVisitsNum

\* k holds maxVisitsNum >= 1 events and the oldest one has expired
AtCapacityExpired(k) ==
    /\ maxVisitsNum >= 1
    /\ Resolves(State, k)
    /\ IsFull(BufferOf(State, k))
    /\ now > Entries(BufferOf(State, k))[1]

\* C7: if a key is at capacity and one of its events has expired, then after one
\* completed sweep (deleteExpiredOnce, then gc) the next AllowVisit for the key
\* returns true.
C7_ExpiryReleasesCapacity ==
    [][(last'.op = "sweep" /\ last'.ret # "panic")
         => \A k \in DOMAIN indexes :
              AtCapacityExpired(k) =>
                \A pick \in Picks(State', k) :
                  allowVisit(State', k, pick, now, maxVisitsNum, Window).ret = "true"]_vars

\* C8: one-shot keys: once every admitted event has expired, one more completed
\* sweep leaves indexes empty and the pool shorter than twice
\* maximumNumberOfOnlineUsers.
C8_MemoryConvergence ==
    [][(/\ last'.op = "sweep" /\ last'.ret # "panic"
        /\ issued >= 1
        /\ \A k \in DOMAIN admitted : admitted[k] = <<>>)
         => /\ indexes' = <<>>
            /\ Len0(visitorRecords') < 2 * maximumNumberOfOnlineUsers]_vars

\* C9: AllowVisitIP with a text that encodes to 0 returns false and changes
\* nothing; with a text that encodes to a key k # 0 it returns, and does, what
\* AllowVisit(k) returns and does in the same state.
C9_TextEntry ==
    [][last'.op = "AllowVisitIP"
         => LET k == Ip4StringToInt64(last'.ip)
            IN  IF k = 0
                THEN last'.ret = "false" /\ UNCHANGED Controller
                ELSE /\ \A pick \in Picks(State, k) :
                          allowVisit(State, k, pick, now, maxVisitsNum, Window).ret
                            = last'.ret
                     /\ \E pick \in Picks(State, k) :
                          allowVisit(State, k, pick, now, maxVisitsNum, Window).s
                            = State']_vars

\* a text that encodes to 0 was denied while other keys hold events
C9_Witness ==
    /\ last.op = "AllowVisitIP" /\ Ip4StringToInt64(last.ip) = 0
    /\ last.ret = "false"
    /\ indexes # <<>>

\* C10 as claimed: a rebuilding gc sizes the pool max(maximumNumberOfOnlineUsers,
\* 2 x number of keys in indexes).
C10_NewLenIsMax ==
    [][(last'.op = "gc" /\ last'.ret = "rebuilt")
         => Len0(visitorRecords') =
              Max2(maximumNumberOfOnlineUsers, 2 * Cardinality(DOMAIN indexes))]_vars

\* C10 as amended: a rebuilding gc sizes the pool maximumNumberOfOnlineUsers when
\* usedLen = len(visitorRecords) - |unused| is below it, and 2 x usedLen otherwise.
C10_NewLenByUsedLen ==
    [][(last'.op = "gc" /\ last'.ret = "rebuilt")
         => LET usedLen == Len0(visitorRecords) - Cardinality(notUsedVisitorRecordsIndex)
            IN  Len0(visitorRecords') =
                  IF usedLen < maximumNumberOfOnlineUsers
                  THEN maximumNumberOfOnlineUsers
                  ELSE 2 * usedLen]_vars

\* a gc rebuilt the pool around two live keys
C10_Witness ==
    /\ last.op = "gc" /\ last.ret = "rebuilt"
    /\ Cardinality(DOMAIN indexes) = 2

\* C11: gc rebuilds the pool if and only if len(visitorRecords) >= 2 x
\* maximumNumberOfOnlineUsers and (number of keys in indexes) x 2 < number of
\* unused indices; when either fails, gc leaves the controller unchanged.
C11_GcIffSparse ==
    [][(last'.op = "gc" /\ last'.ret # "panic")
         => LET sparse == /\ Len0(visitorRecords) >= 2 * maximumNumberOfOnlineUsers
                          /\ Cardinality(DOMAIN indexes) * 2
                               < Cardinality(notUsedVisitorRecordsIndex)
            IN  /\ last'.ret = "rebuilt" <=> sparse
                /\ ~sparse => UNCHANGED Controller]_vars

\* the events of k's buffer that deleteExpiredOnce at instant t keeps
Unexpired(s, k, t) ==
    IF Resolves(s, k)
    THEN SelectSeq(Entries(BufferOf(s, k)), LAMBDA e : ~(t > e))
    ELSE <<>>

\* C12: after deleteExpiredOnce every key whose events had all expired is gone
\* from indexes and its index is unused, every key still in indexes holds at
\* least one event, and a key with unexpired events keeps its index and exactly
\* its unexpired events.
C12_SweepReclaims ==
    [][last'.op = "deleteExpiredOnce"
         => /\ \A k \in DOMAIN indexes :
                 IF Unexpired(State, k, now) = <<>>
                 THEN /\ k \notin DOMAIN indexes'
                      /\ indexes[k] \in notUsedVisitorRecordsIndex'
                 ELSE /\ k \in DOMAIN indexes'
                      /\ indexes'[k] = indexes[k]
                      /\ Entries(BufferOf(State', k)) = Unexpired(State, k, now)
            /\ \A k \in DOMAIN indexes' :
                 Resolves(State', k) /\ UsedSize(BufferOf(State', k)) >= 1]_vars

\* C13: the buffer of every unused index is empty, in every reachable state.
C13_FreeSlotsEmpty ==
    ~panicked =>
      \A i \in notUsedVisitorRecordsIndex :
         i \in DOMAIN visitorRecords /\ UsedSize(heap[visitorRecords[i]]) = 0

\* the expirations of q, oldest first, never decrease
Ordered(q) ==
    \A i, j \in 1..UsedSize(q) : i < j => Entries(q)[i] <= Entries(q)[j]

\* C19: with a clock that never runs backwards the events of every buffer of
\* the pool are in non-decreasing order of expiration, reused and relocated
\* buffers included.
C19_EntriesOrdered ==
    \A i \in DOMAIN visitorRecords : Ordered(heap[visitorRecords[i]])

\* a buffer that gc relocated to a lower index and that holds two events of
\* different expirations
C19_Witness ==
    /\ last.op = "gc" /\ last.ret = "rebuilt"
    /\ \E i \in DOMAIN visitorRecords :
         LET q == heap[visitorRecords[i]]
         IN  UsedSize(q) = 2 /\ Entries(q)[1] < Entries(q)[2]

\* C20: every index stored in indexes is an index of visitorRecords: AllowVisit
\* of a known key never indexes out of range and deleteExpiredOnce never takes
\* its out-of-range branch.
C20_IndexInRange ==
    /\ ~panicked
    /\ \A k \in DOMAIN indexes : indexes[k] \in DOMAIN visitorRecords

\* C14: two first-sight calls for two different keys, in any interleaving, end
\* with the keys mapped to different indices, the indices they took gone from
\* the unused set, and every appended buffer still in the pool, each key
\* reaching a buffer that holds its one event.
C14_CrossKeySerialized ==
    (/\ \A c \in Callers : pc[c] = "idle" /\ loc[c].calls = 1
     /\ \A k \in 1..ConcKeys : Len(admitted[k]) = 1)
      => /\ \A k \in 1..ConcKeys : Resolves(State, k)
         /\ \A j, k \in 1..ConcKeys : j # k => indexes[j] # indexes[k]
         /\ Range(indexes) \cap notUsedVisitorRecordsIndex = {}
         /\ DOMAIN heap \subseteq Range(visitorRecords)
         /\ \A k \in 1..ConcKeys : UsedSize(BufferOf(State, k)) = 1

\* how many events at the front of entries DeleteExpired at instant t drops when
\* it drops the events e with gone(t, e)
Leading(entries, t, gone(_, _)) ==
    Cardinality({i \in 1..Len(entries) : \A j \in 1..i : gone(t, entries[j])})

DropFront(entries, n) == SubSeq(entries, n + 1, Len(entries))

\* C17 as claimed: DeleteExpired at instant now removes from the front exactly
\* the events whose expiration is <= now, stops at the first one that is > now
\* and leaves the rest, in order.
C17_DropsUpToNow ==
    [][last'.op = "DeleteExpired"
         => Entries(TheQueue') =
              DropFront(Entries(TheQueue),
                        Leading(Entries(TheQueue), now, LAMBDA t, e : e <= t))]_vars

\* C17 as amended: DeleteExpired at instant now removes from the front exactly
\* the events whose expiration is < now, stops at the first one that is >= now
\* (an event that expires at now stays) and leaves the rest, in order.
C17_DropsBeforeNow ==
    [][last'.op = "DeleteExpired"
         => Entries(TheQueue') =
              DropFront(Entries(TheQueue),
                        Leading(Entries(TheQueue), now, LAMBDA t, e : e < t))]_vars

\* DeleteExpired has run on a buffer whose oldest event expires at now and sits
\* right behind a removed event that expired at now - 1
C17_Witness ==
    /\ last.op = "DeleteExpired"
    /\ UsedSize(TheQueue) >= 1
    /\ Entries(TheQueue)[1] = now
    /\ TheQueue.slice[(TheQueue.head + TheQueue.maxSize - 1) % TheQueue.maxSize] = now - 1
    /\ TheQueue.head # 0

\* C18: on a buffer of capacity N = maxVisitsNum, 0 <= UsedSize <= N always;
\* Push fails, changing nothing, iff UsedSize = N and otherwise appends the event
\* (UsedSize grows by one); Pop fails iff UsedSize = 0 and otherwise removes and
\* returns the oldest event, across wrap-around of head and tail too.
C18_RingInvariant ==
    [][/\ UsedSize(TheQueue') \in 0..maxVisitsNum
       /\ last'.op = "Push" =>
            IF UsedSize(TheQueue) = maxVisitsNum
            THEN last'.err /\ heap' = heap
            ELSE /\ ~last'.err
                 /\ UsedSize(TheQueue') = UsedSize(TheQueue) + 1
                 /\ Entries(TheQueue') = Append(Entries(TheQueue), last'.val)
       /\ last'.op = "Pop" =>
            IF UsedSize(TheQueue) = 0
            THEN last'.err /\ heap' = heap
            ELSE /\ ~last'.err
                 /\ last'.val = Entries(TheQueue)[1]
                 /\ Entries(TheQueue') = Tail(Entries(TheQueue))]_vars

\* a Pop returned the oldest event of a buffer whose tail had wrapped around
C18_Witness ==
    /\ last.op = "Pop" /\ ~last.err
    /\ maxVisitsNum >= 2
    /\ TheQueue.tail < TheQueue.head
    /\ UsedSize(TheQueue) >= 1

\* the events of k's buffer that still count at the current instant
Recorded(k) == Len(Unexpired(State, k, now))

\* C15: when calls for a key interleave with the sweep's DeleteExpired and the
\* reclaiming of the key's slot, the events recorded for the key and the events
\* admitted for it (and not expired) differ by at most one.
C15_RaceOffByOne ==
    \A k \in DOMAIN admitted :
       /\ Recorded(k) - Len(admitted[k]) <= 1
       /\ Len(admitted[k]) - Recorded(k) <= 1

\* C16: a tick that fires while a sweep is running starts no sweep, neither at
\* once nor when the running sweep has finished: the tick the loop receives
\* when it starts a sweep never is one that fired during a sweep.
C16_TickSkipped ==
    [][(pc[Sweeper] = "guard" /\ pc'[Sweeper] = "range") => ~loc[Sweeper].tick]_vars

====
